---- MODULE Spec2Model ----
(***************************************************************************)
(* Quiver: random selection from a markdown table, with the selection      *)
(* history kept in a QUIVER_METADATA comment block of the same file.       *)
(*                                                                         *)
(* Text is modelled line by line.  A file's content is the sequence of     *)
(* lines content.split('\n') yields; a line is a record [k, c, v]:         *)
(*   k = "row"     | c1 | c2 | ...   c = the stripped cells                *)
(*   k = "blank"   an empty (or whitespace only) line                      *)
(*   k = "hash"    a line starting with '#'           c = <<its text>>     *)
(*   k = "text"    any other free text                c = <<its text>>     *)
(*   k = "comment" a line starting with '<!--' that is not the sentinel    *)
(*   k = "open"    <!-- QUIVER_METADATA                                    *)
(*   k = "kv"      key: [item, item, ...]   c = <<key>>, v = the items     *)
(*   k = "close"   -->                                                     *)
(* Cells and keys are atomic strings; the items of a key's value are       *)
(* sequences of characters, so that int() and str() are real conversions.  *)
(* None is the empty sequence and a present value x is <<x>>.              *)
(***************************************************************************)
EXTENDS Integers, Sequences, FiniteSets, TLC

VARIABLES disk, last, doc, obs, run, picked, procs

vars == <<disk, last, doc, obs, run, picked, procs>>

(***************************************************************************)
(* Lines                                                                   *)
(***************************************************************************)
Row(cells) == [k |-> "row", c |-> cells, v |-> <<>>]
Blank == [k |-> "blank", c |-> <<>>, v |-> <<>>]
Hash(s) == [k |-> "hash", c |-> <<s>>, v |-> <<>>]
Text(s) == [k |-> "text", c |-> <<s>>, v |-> <<>>]
Comment(s) == [k |-> "comment", c |-> <<s>>, v |-> <<>>]
MetaOpen == [k |-> "open", c |-> <<>>, v |-> <<>>]
KV(key, items) == [k |-> "kv", c |-> <<key>>, v |-> items]
MetaClose == [k |-> "close", c |-> <<>>, v |-> <<>>]

\* '||', what the separator of a table without headers is written as: no row
EmptySeparator == Text("||")

\* cells made only of whitespace, dashes and colons
DashCells == {"", "-", "---", ":--"}

\* r'^\|(.+)\|$'
TABLE_ROW_PATTERN(line) == line.k = "row"

\* r'^\|[\s\-:|]+\|$'
TABLE_SEPARATOR_PATTERN(line) ==
    line.k = "row" /\ \A i \in 1..Len(line.c) : line.c[i] \in DashCells

\* str.lower() == 'used'
lower_is_used(h) == h \in {"Used", "used", "USED"}

\* line.strip().startswith('<!--')
starts_comment(line) == line.k \in {"comment", "open"}

(***************************************************************************)
(* int() and str()                                                         *)
(***************************************************************************)
Digits == <<"0", "1", "2", "3", "4", "5", "6", "7", "8", "9">>

IsDigit(ch) == \E d \in 1..10 : Digits[d] = ch

DigitVal(ch) == (CHOOSE d \in 1..10 : Digits[d] = ch) - 1

RECURSIVE lstrip(_, _)
lstrip(s, ch) ==
    IF s # <<>> /\ Head(s) = ch THEN lstrip(Tail(s), ch) ELSE s

RECURSIVE rstrip(_, _)
rstrip(s, ch) ==
    IF s # <<>> /\ s[Len(s)] = ch THEN rstrip(SubSeq(s, 1, Len(s) - 1), ch) ELSE s

\* str.strip(ch)
strip(s, ch) == rstrip(lstrip(s, ch), ch)

RECURSIVE digits_value(_, _)
digits_value(s, acc) ==
    IF s = <<>> THEN acc ELSE digits_value(Tail(s), 10 * acc + DigitVal(Head(s)))

\* int(s): <<n>>, or <<>> for ValueError
py_int(s) ==
    LET signed == s # <<>> /\ Head(s) \in {"-", "+"}
        body == IF signed THEN Tail(s) ELSE s
    IN  IF body = <<>> \/ \E i \in 1..Len(body) : ~IsDigit(body[i])
        THEN <<>>
        ELSE IF signed /\ Head(s) = "-"
             THEN <<0 - digits_value(body, 0)>>
             ELSE <<digits_value(body, 0)>>

RECURSIVE nat_str(_)
nat_str(n) ==
    IF n < 10 THEN <<Digits[n + 1]>>
    ELSE nat_str(n \div 10) \o <<Digits[(n % 10) + 1]>>

\* str(n)
py_str(n) == IF n < 0 THEN <<"-">> \o nat_str(0 - n) ELSE nat_str(n)

(***************************************************************************)
(* dict with insertion order: a sequence of [key, val]                     *)
(***************************************************************************)
dict_has(d, key) == \E i \in 1..Len(d) : d[i].key = key

\* d[key] = val
dict_set(d, key, val) ==
    IF dict_has(d, key)
    THEN [i \in 1..Len(d) |-> IF d[i].key = key THEN [key |-> key, val |-> val] ELSE d[i]]
    ELSE Append(d, [key |-> key, val |-> val])

\* d.get(key, default)
dict_get(d, key, default) ==
    IF dict_has(d, key)
    THEN d[CHOOSE i \in 1..Len(d) : d[i].key = key].val
    ELSE default

(***************************************************************************)
(* parser.py                                                               *)
(***************************************************************************)
Entry(content, metadata, row_index) ==
    [content |-> content, metadata |-> metadata, row_index |-> row_index]

\* Entry.is_used
is_used(entry, history) == \E i \in 1..Len(history) : history[i] = entry.row_index

\* the metadata dict: whether it has the key 'history', its value, the other keys
Metadata(has_history, history, other) ==
    [has_history |-> has_history, history |-> history, other |-> other]

\* bool(metadata) of a dict
metadata_truthy(md) == md.has_history \/ md.other # <<>>

FilePath == "list.md"

ParsedFile(entries, headers, metadata, raw_content) ==
    [entries |-> entries, headers |-> headers, metadata |-> metadata,
     raw_content |-> raw_content, filepath |-> FilePath]

RECURSIVE table_scan(_, _, _)
table_scan(lines, i, st) ==
    IF i > Len(lines) THEN st
    ELSE LET line == lines[i] IN
         IF TABLE_ROW_PATTERN(line)
         THEN IF ~st.in_table
              THEN table_scan(lines, i + 1,
                       [st EXCEPT !.headers = line.c, !.in_table = TRUE])
              ELSE IF TABLE_SEPARATOR_PATTERN(line)
                   THEN table_scan(lines, i + 1, st)
                   ELSE table_scan(lines, i + 1,
                            [st EXCEPT !.rows = Append(@, [cells |-> line.c,
                                                            row_index |-> st.row_index]),
                                       !.row_index = @ + 1])
         ELSE IF st.in_table /\ line.k # "blank" /\ line.k # "hash"
              THEN IF TABLE_SEPARATOR_PATTERN(line)
                   THEN table_scan(lines, i + 1, st)
                   ELSE IF ~TABLE_ROW_PATTERN(line)
                        THEN st
                        ELSE table_scan(lines, i + 1, st)
              ELSE table_scan(lines, i + 1, st)

\* row_index started at 1
_extract_table_from_one(content) ==
    LET st == table_scan(content, 1,
                  [headers |-> <<>>, rows |-> <<>>, in_table |-> FALSE, row_index |-> 1])
    IN  [headers |-> st.headers, rows |-> st.rows]

_extract_table(content) ==
    LET st == table_scan(content, 1,
                  [headers |-> <<>>, rows |-> <<>>, in_table |-> FALSE, row_index |-> 0])
    IN  [headers |-> st.headers, rows |-> st.rows]

RECURSIVE row_metadata(_, _, _, _, _)
row_metadata(headers, cells, i, metadata_end, metadata) ==
    IF i >= metadata_end THEN metadata
    ELSE row_metadata(headers, cells, i + 1, metadata_end,
             IF i < Len(headers)
             THEN dict_set(metadata, headers[i + 1], cells[i + 1])
             ELSE metadata)

RECURSIVE entries_from_rows(_, _, _, _)
entries_from_rows(headers, rows, has_used_column, entries) ==
    IF rows = <<>> THEN entries
    ELSE LET cells == Head(rows).cells
             metadata_end == IF has_used_column THEN Len(cells) - 1 ELSE Len(cells)
         IN  entries_from_rows(headers, Tail(rows), has_used_column,
                 IF Len(cells) < 1 THEN entries
                 ELSE Append(entries,
                          Entry(cells[1],
                                row_metadata(headers, cells, 1, metadata_end, <<>>),
                                Head(rows).row_index)))

\* the last header not tested: the Used cell kept as an attribute
_extract_entries_from_table_keeps_used(headers, rows) ==
    IF headers = <<>> THEN <<>>
    ELSE entries_from_rows(headers, rows, FALSE, <<>>)

_extract_entries_from_table(headers, rows) ==
    IF headers = <<>> THEN <<>>
    ELSE entries_from_rows(headers, rows, lower_is_used(headers[Len(headers)]), <<>>)

\* the items that int() rejects skipped, the others kept
history_value_partial(items) ==
    LET kept == SelectSeq(items, LAMBDA item : item # <<>>)
        ints == [i \in 1..Len(kept) |-> py_int(strip(strip(kept[i], "\""), "'"))]
        good == SelectSeq(ints, LAMBDA n : n # <<>>)
    IN  [i \in 1..Len(good) |-> good[i][1]]

\* the value of the history key: brackets stripped, split on commas, int() of each
history_value(items) ==
    LET kept == SelectSeq(items, LAMBDA item : item # <<>>)
        ints == [i \in 1..Len(kept) |-> py_int(strip(strip(kept[i], "\""), "'"))]
    IN  IF \E i \in 1..Len(kept) : ints[i] = <<>>
        THEN <<>>
        ELSE [i \in 1..Len(kept) |-> ints[i][1]]

RECURSIVE metadata_lines(_, _, _, _)
metadata_lines(lines, i, j, metadata) ==
    IF i > j THEN metadata
    ELSE metadata_lines(lines, i + 1, j,
             IF lines[i].k # "kv" THEN metadata
             ELSE IF lines[i].c[1] = "history"
                  THEN [metadata EXCEPT !.history = history_value(lines[i].v)]
                  ELSE [metadata EXCEPT !.other =
                           IF \E n \in 1..Len(@) : @[n] = lines[i].c[1]
                           THEN @ ELSE Append(@, lines[i].c[1])])

\* r'<!--\s*QUIVER_METADATA\s*\n(.*?)\n-->': the first opening line and the first
\* closing line at least two lines below it; 0 when there is none
metadata_open(lines) ==
    IF \E i \in 1..Len(lines) : lines[i].k = "open"
    THEN CHOOSE i \in 1..Len(lines) :
             lines[i].k = "open" /\ \A n \in 1..(i - 1) : lines[n].k # "open"
    ELSE 0

metadata_close(lines, i) ==
    IF \E j \in (i + 2)..Len(lines) : lines[j].k = "close"
    THEN CHOOSE j \in (i + 2)..Len(lines) :
             lines[j].k = "close" /\ \A n \in (i + 2)..(j - 1) : lines[n].k # "close"
    ELSE 0

\* {} returned when no block matches: no history key
_extract_metadata_no_default(content) ==
    LET i == metadata_open(content)
        j == IF i = 0 THEN 0 ELSE metadata_close(content, i)
    IN  IF i = 0 \/ j = 0
        THEN Metadata(FALSE, <<>>, <<>>)
        ELSE metadata_lines(content, i + 1, j - 1, Metadata(TRUE, <<>>, <<>>))

_extract_metadata(content) ==
    LET i == metadata_open(content)
        j == IF i = 0 THEN 0 ELSE metadata_close(content, i)
    IN  IF i = 0 \/ j = 0
        THEN Metadata(TRUE, <<>>, <<>>)
        ELSE metadata_lines(content, i + 1, j - 1, Metadata(TRUE, <<>>, <<>>))

\* the ParsedFile of an existing file's content
parse_content(content) ==
    LET table_data == _extract_table(content)
    IN  ParsedFile(_extract_entries_from_table(table_data.headers, table_data.rows),
                   table_data.headers,
                   _extract_metadata(content),
                   content)

\* no 'if not path.exists()': a missing file read as an empty one
parse_file_missing_as_empty(d) == <<parse_content(d.content)>>

\* <<ParsedFile>>, or <<>> for FileNotFoundError
parse_file(d) == IF d.exists THEN <<parse_content(d.content)>> ELSE <<>>

RECURSIVE pre_table(_, _, _)
pre_table(original_lines, i, pre_table_lines) ==
    IF i > Len(original_lines) \/ TABLE_ROW_PATTERN(original_lines[i])
    THEN pre_table_lines
    ELSE pre_table(original_lines, i + 1,
             IF ~starts_comment(original_lines[i])
             THEN Append(pre_table_lines, original_lines[i])
             ELSE pre_table_lines)

\* '| ' + ' | '.join(cells) + ' |'
join_row(cells) == IF cells = <<>> THEN Row(<<"">>) ELSE Row(cells)

\* '|' + '|'.join(['---' for _ in headers]) + '|'
join_separator(headers) ==
    IF headers = <<>> THEN EmptySeparator
    ELSE Row([i \in 1..Len(headers) |-> "---"])

serialize_file(parsed_file) ==
    LET pre_table_lines == pre_table(parsed_file.raw_content, 1, <<>>)
        prefix == IF pre_table_lines = <<>> THEN <<>>
                  ELSE IF pre_table_lines[Len(pre_table_lines)].k = "blank"
                       THEN pre_table_lines
                       ELSE Append(pre_table_lines, Blank)
        headers == SelectSeq(parsed_file.headers, LAMBDA h : ~lower_is_used(h))
        data_row(entry) ==
            join_row(<<entry.content>> \o
                     [i \in 1..(Len(headers) - 1) |->
                         dict_get(entry.metadata, headers[i + 1], "")])
        table == <<join_row(headers), join_separator(headers)>> \o
                 [n \in 1..Len(parsed_file.entries) |-> data_row(parsed_file.entries[n])]
        history == parsed_file.metadata.history
        block == IF ~metadata_truthy(parsed_file.metadata) THEN <<>>
                 ELSE <<Blank, MetaOpen>> \o
                      (IF parsed_file.metadata.has_history
                       THEN <<KV("history", [i \in 1..Len(history) |-> py_str(history[i])])>>
                       ELSE <<>>) \o
                      <<MetaClose>>
    IN  prefix \o table \o block

\* path.write_text(serialize_file(parsed_file))
save_file(parsed_file) == [exists |-> TRUE, content |-> serialize_file(parsed_file)]

(***************************************************************************)
(* state.py: the functions update the ParsedFile they are given; here they *)
(* return the updated ParsedFile                                           *)
(***************************************************************************)
\* a mark put at the head of the history instead of its tail
add_to_history_front(parsed_file, entry) ==
    [parsed_file EXCEPT !.metadata.has_history = TRUE,
                        !.metadata.history = <<entry.row_index>> \o @]

add_to_history(parsed_file, entry) ==
    LET history == IF parsed_file.metadata.has_history
                   THEN parsed_file.metadata.history ELSE <<>>
    IN  [parsed_file EXCEPT !.metadata.has_history = TRUE,
                            !.metadata.history = Append(history, entry.row_index)]

\* pop(0): the oldest selection is removed and returned
remove_from_history_oldest(parsed_file) ==
    LET history == parsed_file.metadata.history IN
    IF ~parsed_file.metadata.has_history \/ history = <<>>
    THEN [file |-> parsed_file, ret |-> <<>>]
    ELSE [file |-> [parsed_file EXCEPT !.metadata.history = Tail(history)],
          ret |-> <<history[1]>>]

\* history[-1] read without pop(): the tail is returned and stays
remove_from_history_keep(parsed_file) ==
    LET history == parsed_file.metadata.history IN
    [file |-> parsed_file,
     ret |-> IF ~parsed_file.metadata.has_history \/ history = <<>>
             THEN <<>> ELSE <<history[Len(history)]>>]

\* [file: the updated ParsedFile, ret: the index removed or None]
remove_from_history(parsed_file) ==
    LET history == parsed_file.metadata.history IN
    IF ~parsed_file.metadata.has_history \/ history = <<>>
    THEN [file |-> parsed_file, ret |-> <<>>]
    ELSE [file |-> [parsed_file EXCEPT !.metadata.history =
                        SubSeq(history, 1, Len(history) - 1)],
          ret |-> <<history[Len(history)]>>]

\* the position in the list compared, counted from 1, instead of row_index
find_entry_by_index_position(parsed_file, index) ==
    LET entries == parsed_file.entries IN
    IF index \in 1..Len(entries) THEN <<entries[index]>> ELSE <<>>

find_entry_by_index(parsed_file, index) ==
    LET entries == parsed_file.entries IN
    IF \E i \in 1..Len(entries) : entries[i].row_index = index
    THEN <<entries[CHOOSE i \in 1..Len(entries) :
                       /\ entries[i].row_index = index
                       /\ \A n \in 1..(i - 1) : entries[n].row_index # index]>>
    ELSE <<>>

pick_and_mark(parsed_file, entry) == add_to_history(parsed_file, entry)

save_state(parsed_file) == save_file(parsed_file)

\* the bound taken from the history's length, not the table's
validate_history_len_history(parsed_file) ==
    IF ~parsed_file.metadata.has_history THEN parsed_file
    ELSE LET num_entries == Len(parsed_file.metadata.history) IN
         [parsed_file EXCEPT !.metadata.history =
             SelectSeq(@, LAMBDA idx : 0 <= idx /\ idx < num_entries)]

\* idx <= num_entries in place of idx < num_entries
validate_history_off_by_one(parsed_file) ==
    IF ~parsed_file.metadata.has_history THEN parsed_file
    ELSE LET num_entries == Len(parsed_file.entries) IN
         [parsed_file EXCEPT !.metadata.history =
             SelectSeq(@, LAMBDA idx : 0 <= idx /\ idx <= num_entries)]

validate_history(parsed_file) ==
    IF ~parsed_file.metadata.has_history THEN parsed_file
    ELSE LET num_entries == Len(parsed_file.entries) IN
         [parsed_file EXCEPT !.metadata.history =
             SelectSeq(@, LAMBDA idx : 0 <= idx /\ idx < num_entries)]

\* metadata.get('history', [])
get_history(parsed_file) ==
    IF parsed_file.metadata.has_history THEN parsed_file.metadata.history ELSE <<>>

(***************************************************************************)
(* selector.py: r is the number random.choice draws                        *)
(***************************************************************************)
\* the filter left out: every entry counts as available
get_available_entries_all(entries, history) == entries

get_available_entries(entries, history) ==
    SelectSeq(entries, LAMBDA entry : ~is_used(entry, history))

\* entries[0] instead of random.choice(entries)
select_random_first(entries, r) ==
    IF entries = <<>> THEN <<>> ELSE <<entries[1]>>

select_random(entries, r) ==
    IF entries = <<>> THEN <<>> ELSE <<entries[(r % Len(entries)) + 1]>>

select_random_available(entries, history, r) ==
    select_random(get_available_entries(entries, history), r)

(***************************************************************************)
(* rollback.py                                                             *)
(***************************************************************************)
\* len(history) in place of len(set(history))
len_list(history) == Len(history)

\* len(set(history))
len_set(history) == Cardinality({history[i] : i \in 1..Len(history)})

\* no return on 'last_index is None': the lookup of None finds no entry
rollback_last_no_empty_check(d) ==
    LET loaded == parse_file(d) IN
    IF loaded = <<>>
    THEN [disk |-> d, ret |-> <<>>, raised |-> "FileNotFoundError"]
    ELSE LET parsed == validate_history(loaded[1])
             removed == remove_from_history(parsed)
             entry == IF removed.ret = <<>> THEN <<>>
                      ELSE find_entry_by_index(removed.file, removed.ret[1])
         IN  IF entry = <<>>
             THEN [disk |-> d, ret |-> <<>>, raised |-> "ValueError"]
             ELSE [disk |-> save_file(removed.file), ret |-> entry, raised |-> ""]

\* [disk, ret: the Entry rolled back or None, raised]
rollback_last(d) ==
    LET loaded == parse_file(d) IN
    IF loaded = <<>>
    THEN [disk |-> d, ret |-> <<>>, raised |-> "FileNotFoundError"]
    ELSE LET parsed == validate_history(loaded[1])
             removed == remove_from_history(parsed)
         IN  IF removed.ret = <<>>
             THEN [disk |-> d, ret |-> <<>>, raised |-> ""]
             ELSE LET entry == find_entry_by_index(removed.file, removed.ret[1]) IN
                  IF entry = <<>>
                  THEN [disk |-> d, ret |-> <<>>, raised |-> "ValueError"]
                  ELSE [disk |-> save_file(removed.file), ret |-> entry, raised |-> ""]

\* the history saved as loaded instead of cleared
reset_all_keep(d) ==
    LET loaded == parse_file(d) IN
    IF loaded = <<>>
    THEN [disk |-> d, count |-> 0, raised |-> "FileNotFoundError"]
    ELSE [disk |-> save_file(loaded[1]),
          count |-> len_set(get_history(loaded[1])), raised |-> ""]

\* [disk, count, raised]
reset_all(d) ==
    LET loaded == parse_file(d) IN
    IF loaded = <<>>
    THEN [disk |-> d, count |-> 0, raised |-> "FileNotFoundError"]
    ELSE LET parsed == loaded[1]
             reset_count == len_set(get_history(parsed))
         IN  [disk |-> save_file([parsed EXCEPT !.metadata.has_history = TRUE,
                                                !.metadata.history = <<>>]),
              count |-> reset_count, raised |-> ""]

(***************************************************************************)
(* cli.py: a command returns the file it leaves on disk, its exit code,    *)
(* the message it prints (out) and what the message shows.  The verbose    *)
(* flag only adds printed lines and is left out.                           *)
(***************************************************************************)
Outcome(d, exit, out) ==
    [disk |-> d, exit |-> exit, out |-> out, entry |-> <<>>,
     count |-> 0, available |-> 0, total |-> 0]

NotFound(d) == Outcome(d, 1, "File not found")

\* the validated ParsedFile saved before the return on exhaustion
cmd_pick_saves_pruned(d, dry_run, r) ==
    LET loaded == parse_file(d) IN
    IF loaded = <<>> THEN NotFound(d)
    ELSE LET parsed == validate_history(loaded[1])
             history == get_history(parsed)
             entry == select_random_available(parsed.entries, history, r)
         IN  IF entry = <<>>
             THEN Outcome(IF dry_run THEN d ELSE save_state(parsed),
                          1, "No unused entries available")
             ELSE [Outcome(IF dry_run THEN d
                           ELSE save_state(pick_and_mark(parsed, entry[1])),
                           0, "picked")
                      EXCEPT !.entry = entry]

\* the dry-run flag not looked at before saving
cmd_pick_saves(d, dry_run, r) ==
    LET loaded == parse_file(d) IN
    IF loaded = <<>> THEN NotFound(d)
    ELSE LET parsed == validate_history(loaded[1])
             history == get_history(parsed)
             entry == select_random_available(parsed.entries, history, r)
         IN  IF entry = <<>>
             THEN Outcome(d, 1, "No unused entries available")
             ELSE [Outcome(save_state(pick_and_mark(parsed, entry[1])), 0, "picked")
                      EXCEPT !.entry = entry]

cmd_pick(d, dry_run, r) ==
    LET loaded == parse_file(d) IN
    IF loaded = <<>> THEN NotFound(d)
    ELSE LET parsed == validate_history(loaded[1])
             history == get_history(parsed)
             entry == select_random_available(parsed.entries, history, r)
         IN  IF entry = <<>>
             THEN Outcome(d, 1, "No unused entries available")
             ELSE [Outcome(IF dry_run THEN d
                           ELSE save_state(pick_and_mark(parsed, entry[1])),
                           0, "picked")
                      EXCEPT !.entry = entry]

cmd_rollback(d, dry_run) ==
    IF dry_run
    THEN LET loaded == parse_file(d) IN
         IF loaded = <<>> THEN NotFound(d)
         ELSE LET parsed == loaded[1]
                  history == get_history(parsed)
              IN  IF history = <<>>
                  THEN Outcome(d, 0, "No entries to rollback")
                  ELSE LET last_index == history[Len(history)]
                           last_entry == find_entry_by_index(parsed, last_index)
                       IN  IF last_entry # <<>>
                           THEN [Outcome(d, 0, "Would rollback") EXCEPT !.entry = last_entry]
                           ELSE [Outcome(d, 0, "Would rollback index")
                                    EXCEPT !.count = last_index]
    ELSE LET res == rollback_last(d) IN
         IF res.raised = "FileNotFoundError" THEN NotFound(d)
         ELSE IF res.raised = "ValueError"
              THEN Outcome(res.disk, 1, "found in history but not in entries list")
              ELSE IF res.ret = <<>>
                   THEN Outcome(res.disk, 0, "No entries to rollback")
                   ELSE [Outcome(res.disk, 0, "Rolled back") EXCEPT !.entry = res.ret]

cmd_reset(d, dry_run) ==
    IF dry_run
    THEN LET loaded == parse_file(d) IN
         IF loaded = <<>> THEN NotFound(d)
         ELSE LET parsed == loaded[1] IN
              [Outcome(d, 0, "Would reset")
                  EXCEPT !.count = len_set(get_history(parsed)),
                         !.total = Len(parsed.entries)]
    ELSE LET res == reset_all(d) IN
         IF res.raised = "FileNotFoundError" THEN NotFound(d)
         ELSE [Outcome(res.disk, 0,
                       IF res.count = 0 THEN "All entries are already unused"
                       ELSE "Reset complete")
                  EXCEPT !.count = res.count]

\* the rows marked [x] in a trailing Used column counted as the used ones
cmd_status_marked(d) ==
    LET loaded == parse_file(d) IN
    IF loaded = <<>> THEN NotFound(d)
    ELSE LET parsed == loaded[1]
             rows == _extract_table(d.content).rows
             marked == {n \in 1..Len(rows) :
                           /\ parsed.headers # <<>>
                           /\ lower_is_used(parsed.headers[Len(parsed.headers)])
                           /\ Len(rows[n].cells) = Len(parsed.headers)
                           /\ rows[n].cells[Len(parsed.headers)] = "[x]"}
         IN  [Outcome(d, 0, "Status")
                 EXCEPT !.count = Cardinality(marked),
                        !.available = Len(parsed.entries) - Cardinality(marked),
                        !.total = Len(parsed.entries)]

cmd_status(d) ==
    LET loaded == parse_file(d) IN
    IF loaded = <<>> THEN NotFound(d)
    ELSE LET parsed == loaded[1]
             history == get_history(parsed)
         IN  [Outcome(d, 0, "Status")
                 EXCEPT !.count = len_set(history),
                        !.available = Len(get_available_entries(parsed.entries, history)),
                        !.total = Len(parsed.entries)]

(***************************************************************************)
(* The files the commands are run on                                       *)
(***************************************************************************)
MaxRows == 3
MaxHist == 3

SeqsUpTo(S, n) == UNION {[1..k -> S] : k \in 0..n}

\* the content of the i-th row of a generated table
Contents == <<"A", "B", "C", "D", "E", "F", "G">>

\* items of a history value: in range, out of range, negative
Items == {<<"0">>, <<"1">>, <<"1", "2">>, <<"-", "1">>}

PlainTable(n) ==
    <<Row(<<"Entry">>), Row(<<"---">>)>> \o [i \in 1..n |-> Row(<<Contents[i]>>)]

MetaBlock(items) == <<Blank, MetaOpen, KV("history", items), MetaClose>>

PlainFiles ==
    {PlainTable(n) \o MetaBlock(items) : n \in 0..MaxRows, items \in SeqsUpTo(Items, MaxHist)}

\* hand-written shapes: a title, a legacy Used column, attribute columns, short
\* rows, rows of dashes, text after the table
Tables ==
    { <<Hash("# Title"), Blank,
        Row(<<"Entry", "Tag">>), Row(<<"---", "---">>),
        Row(<<"A", "t">>), Row(<<"B", "">>), Row(<<"C">>)>>,
      <<Row(<<"Entry", "Used">>), Row(<<"---", "---">>),
        Row(<<"A", "[x]">>), Row(<<"-", "[x]">>), Row(<<"B", "">>)>>,
      <<Row(<<"Entry", "Used">>), Row(<<"---", "---">>),
        Row(<<"A", "[x]">>), Row(<<"B", "[x]">>)>>,
      <<Text("notes"), Comment("<!-- draft -->"),
        Row(<<"Entry", "Tag", "USED">>), Row(<<":--", ":--", ":--">>),
        Row(<<"A", "t", "[x]">>), Blank, Row(<<"B", "u", "[ ]">>),
        Text("footer"), Row(<<"C", "v", "">>)>>,
      <<Text("no table here")>> }

Blocks ==
    { <<>>,
      <<Blank, MetaOpen, MetaClose>>,
      <<Blank, MetaOpen, KV("version", <<<<"1">>>>), KV("history", <<<<"1">>, <<"0">>>>),
        MetaClose, Blank>>,
      <<Blank, MetaOpen, KV("history", <<<<"0">>>>), KV("history", <<<<"0">>, <<"0">>>>),
        MetaClose>>,
      <<Blank, MetaOpen, KV("history", <<<<"\"", "1", "\"">>, <<"'", "0", "'">>, <<"+", "1">>>>),
        MetaClose>>,
      <<Blank, MetaOpen, KV("history", <<<<"0">>, <<"x">>>>), MetaClose>>,
      <<MetaOpen, KV("history", <<<<"2">>, <<>>, <<"5">>, <<"1">>>>), Text("-- note"),
        MetaClose, MetaOpen, KV("history", <<<<"0">>>>), MetaClose>> }

ShapedFiles ==
    {t \o b : t \in Tables, b \in Blocks} \cup {b \o t : t \in Tables, b \in Blocks}

\* tables with a column named Used that is not the last one, and with a row
\* of dashes among the data rows
ColumnTables ==
    { <<Row(<<"Entry", "Used", "Tag">>), Row(<<"---", "---", "---">>),
        Row(<<"A", "[x]", "t">>), Row(<<"B", "", "u">>)>>,
      <<Hash("# Title"), Blank,
        Row(<<"Entry", "Tag">>), Row(<<"---", "---">>),
        Row(<<"A", "t">>), Row(<<"-", "-">>), Row(<<"B", "">>)>> }

ColumnFiles == {t \o b : t \in ColumnTables, b \in Blocks}

Missing == [exists |-> FALSE, content |-> <<>>]

InitDisks ==
    {[exists |-> TRUE, content |-> c] : c \in PlainFiles \cup ShapedFiles \cup ColumnFiles}
        \cup {Missing}

(***************************************************************************)
(* Commands run one at a time on the file                                  *)
(***************************************************************************)
\* no invocation is running
NoProcs == <<>>

NoDoc == ParsedFile(<<>>, <<>>, Metadata(FALSE, <<>>, <<>>), <<>>)

\* what the last library call was given and returned, what it raised, and
\* whether the call before it was a call of the same function
Called(op, before, entry, index) ==
    [op |-> op, again |-> obs.op = op, before |-> before, entry |-> entry,
     index |-> index, raised |-> ""]

NoObs ==
    [op |-> "none", again |-> FALSE, before |-> NoDoc, entry |-> <<>>, index |-> <<>>,
     raised |-> ""]

\* the marks and pops made since the last call that was neither: the history
\* before the first mark, the row indexes marked, what the pops returned
NoRun == [phase |-> "idle", base |-> <<>>, marked |-> <<>>, popped |-> <<>>]

Ran(cmd, dry_run, res) ==
    [cmd |-> cmd, dry_run |-> dry_run, before |-> disk, exit |-> res.exit,
     out |-> res.out, entry |-> res.entry, count |-> res.count,
     available |-> res.available, total |-> res.total]

Init ==
    /\ disk \in InitDisks
    /\ last = Ran("none", FALSE, Outcome(disk, 0, ""))
    /\ doc = NoDoc
    /\ obs = NoObs
    /\ run = NoRun
    /\ picked = {}
    /\ procs = NoProcs

Pick(dry_run, r) ==
    LET res == cmd_pick(disk, dry_run, r) IN
    /\ disk' = res.disk
    /\ last' = Ran("pick", dry_run, res)
    /\ UNCHANGED <<doc, obs, run, picked, procs>>

Rollback(dry_run) ==
    LET res == cmd_rollback(disk, dry_run) IN
    /\ disk' = res.disk
    /\ last' = Ran("rollback", dry_run, res)
    /\ UNCHANGED <<doc, obs, run, picked, procs>>

Reset(dry_run) ==
    LET res == cmd_reset(disk, dry_run) IN
    /\ disk' = res.disk
    /\ last' = Ran("reset", dry_run, res)
    /\ UNCHANGED <<doc, obs, run, picked, procs>>

Status ==
    LET res == cmd_status(disk) IN
    /\ disk' = res.disk
    /\ last' = Ran("status", FALSE, res)
    /\ UNCHANGED <<doc, obs, run, picked, procs>>

Next ==
    \/ \E dry_run \in BOOLEAN, r \in 0..(MaxRows - 1) : Pick(dry_run, r)
    \/ \E dry_run \in BOOLEAN : Rollback(dry_run)
    \/ \E dry_run \in BOOLEAN : Reset(dry_run)
    \/ Status

Spec == Init /\ [][Next]_vars

(***************************************************************************)
(* The library functions called on a document held in memory, as the unit  *)
(* tests call them                                                         *)
(***************************************************************************)
\* history values: negative, in range, out of range
UnitIndexes == {-1, 0, 1, 2, 5}

EntriesOf(row_indexes) ==
    [i \in 1..Len(row_indexes) |-> Entry(Contents[i], <<>>, row_indexes[i])]

\* entry lists as the parser numbers them, and lists with a repeated or missing
\* row index
UnitEntries ==
    {EntriesOf([i \in 1..n |-> i - 1]) : n \in 0..MaxRows} \cup
    {EntriesOf(<<1, 1>>), EntriesOf(<<2, 0>>), EntriesOf(<<0, 2, 0>>)}

UnitDocs ==
    {ParsedFile(entries, <<>>, Metadata(TRUE, history, <<>>), <<>>) :
        entries \in UnitEntries, history \in SeqsUpTo(UnitIndexes, MaxHist)} \cup
    {ParsedFile(entries, <<>>, Metadata(FALSE, <<>>, <<>>), <<>>) : entries \in UnitEntries}

InitUnit ==
    /\ disk = Missing
    /\ last = Ran("none", FALSE, Outcome(disk, 0, ""))
    /\ doc \in UnitDocs
    /\ obs = NoObs
    /\ run = NoRun
    /\ picked = {}
    /\ procs = NoProcs

AddToHistory(n) ==
    /\ n <= Len(doc.entries)
    /\ Len(get_history(doc)) < MaxHist
    /\ doc' = add_to_history(doc, doc.entries[n])
    /\ obs' = Called("add_to_history", doc, <<doc.entries[n]>>, <<>>)
    /\ run' = IF run.phase = "mark"
              THEN [run EXCEPT !.marked = Append(@, doc.entries[n].row_index)]
              ELSE [phase |-> "mark", base |-> get_history(doc),
                    marked |-> <<doc.entries[n].row_index>>, popped |-> <<>>]
    /\ UNCHANGED <<disk, last, picked, procs>>

RemoveFromHistory ==
    LET removed == remove_from_history(doc) IN
    /\ doc' = removed.file
    /\ obs' = Called("remove_from_history", doc, <<>>, removed.ret)
    /\ run' = IF run.phase \in {"mark", "pop"} /\ Len(run.popped) < Len(run.marked)
              THEN [run EXCEPT !.phase = "pop", !.popped = Append(@, removed.ret)]
              ELSE NoRun
    /\ UNCHANGED <<disk, last, picked, procs>>

ValidateHistory ==
    /\ doc' = validate_history(doc)
    /\ obs' = Called("validate_history", doc, <<>>, <<>>)
    /\ run' = NoRun
    /\ UNCHANGED <<disk, last, picked, procs>>

SelectRandomAvailable(r) ==
    /\ obs' = Called("select_random_available", doc,
                     select_random_available(doc.entries, doc.metadata.history, r), <<>>)
    /\ run' = NoRun
    /\ UNCHANGED <<disk, last, doc, picked, procs>>

FindEntryByIndex(index) ==
    /\ obs' = Called("find_entry_by_index", doc, find_entry_by_index(doc, index), <<index>>)
    /\ run' = NoRun
    /\ UNCHANGED <<disk, last, doc, picked, procs>>

NextUnit ==
    \/ \E n \in 1..MaxRows : AddToHistory(n)
    \/ RemoveFromHistory
    \/ ValidateHistory
    \/ \E r \in 0..(MaxRows - 1) : SelectRandomAvailable(r)
    \/ \E index \in UnitIndexes : FindEntryByIndex(index)

SpecUnit == InitUnit /\ [][NextUnit]_vars

(***************************************************************************)
(* Commands on a file whose table is edited by hand between them.  picked  *)
(* is the set of entries, named by their content, that a pick selected and *)
(* no rollback has returned or reset cleared since.                        *)
(***************************************************************************)
FreshFiles == {PlainTable(n) \o MetaBlock(<<>>) : n \in 0..MaxRows}

InitEdit ==
    /\ disk \in {[exists |-> TRUE, content |-> c] : c \in FreshFiles}
    /\ last = Ran("none", FALSE, Outcome(disk, 0, ""))
    /\ doc = NoDoc
    /\ obs = NoObs
    /\ run = NoRun
    /\ picked = {}
    /\ procs = NoProcs

EditPick(r) ==
    LET res == cmd_pick(disk, FALSE, r) IN
    /\ disk' = res.disk
    /\ last' = Ran("pick", FALSE, res)
    /\ picked' = IF res.entry # <<>> THEN picked \cup {res.entry[1].content} ELSE picked
    /\ UNCHANGED <<doc, obs, run, procs>>

EditRollback ==
    LET res == cmd_rollback(disk, FALSE) IN
    /\ disk' = res.disk
    /\ last' = Ran("rollback", FALSE, res)
    /\ picked' = IF res.entry # <<>> THEN picked \ {res.entry[1].content} ELSE picked
    /\ UNCHANGED <<doc, obs, run, procs>>

EditReset ==
    LET res == cmd_reset(disk, FALSE) IN
    /\ disk' = res.disk
    /\ last' = Ran("reset", FALSE, res)
    /\ picked' = IF res.exit = 0 THEN {} ELSE picked
    /\ UNCHANGED <<doc, obs, run, procs>>

\* the lines of the data rows of a table, in order
data_row_lines(content) ==
    LET first == CHOOSE i \in 1..Len(content) :
                     content[i].k = "row" /\ \A n \in 1..(i - 1) : content[n].k # "row"
    IN  SelectSeq([i \in 1..Len(content) |-> i],
                  LAMBDA i : /\ i > first
                             /\ TABLE_ROW_PATTERN(content[i])
                             /\ ~TABLE_SEPARATOR_PATTERN(content[i]))

\* the n-th data row deleted from the file in an editor
RemoveRow(n) ==
    /\ disk.exists
    /\ n <= Len(data_row_lines(disk.content))
    /\ LET at == data_row_lines(disk.content)[n] IN
       disk' = [disk EXCEPT !.content =
                   SubSeq(@, 1, at - 1) \o SubSeq(@, at + 1, Len(@))]
    /\ last' = Ran("remove row", FALSE, Outcome(disk, 0, ""))
    /\ UNCHANGED <<doc, obs, run, picked, procs>>

NextEdit ==
    \/ \E r \in 0..(MaxRows - 1) : EditPick(r)
    \/ EditRollback
    \/ EditReset
    \/ \E n \in 1..MaxRows : RemoveRow(n)

SpecEdit == InitEdit /\ [][NextEdit]_vars

(***************************************************************************)
(* The parser and the serializer called on a file, as the parser tests     *)
(* call them                                                               *)
(***************************************************************************)
\* items of a history value: numbers, an empty item, a quoted number, and
\* items that int() rejects
Tokens == {<<"0">>, <<"1", "2">>, <<>>, <<"'", "1", "'">>, <<"x">>, <<"1", "x">>}

TokenFiles == {PlainTable(MaxRows) \o MetaBlock(items) : items \in SeqsUpTo(Tokens, MaxHist)}

InitParse ==
    /\ disk \in {[exists |-> TRUE, content |-> c] :
                    c \in TokenFiles \cup ShapedFiles \cup ColumnFiles}
    /\ last = Ran("none", FALSE, Outcome(disk, 0, ""))
    /\ doc = NoDoc
    /\ obs = NoObs
    /\ run = NoRun
    /\ picked = {}
    /\ procs = NoProcs

ParseFile ==
    /\ doc' = parse_file(disk)[1]
    /\ obs' = Called("parse_file", doc, <<>>, <<>>)
    /\ UNCHANGED <<disk, last, run, picked, procs>>

SaveFile ==
    /\ obs.op = "parse_file"
    /\ disk' = save_file(doc)
    /\ obs' = Called("save_file", doc, <<>>, <<>>)
    /\ UNCHANGED <<last, doc, run, picked, procs>>

NextParse == ParseFile \/ SaveFile

SpecParse == InitParse /\ [][NextParse]_vars

(***************************************************************************)
(* Two invocations on the same file.  An invocation reads the file         *)
(* (parse_file), works on the ParsedFile it holds, and writes the file     *)
(* (save_file): the read and the write are its only steps on the file, and *)
(* the other invocation may take its own steps between them.               *)
(***************************************************************************)
Procs == {"a", "b"}

\* an invocation: where it is, its command, the ParsedFile it loaded, the
\* ParsedFile it is to save (none when it saves nothing), the entry it
\* selected or rolled back, and, for the claims, whether no invocation had
\* written yet when it loaded (fresh) and the how-many-th write its write was
Idle ==
    [pc |-> "idle", cmd |-> "none", loaded |-> <<>>, write |-> <<>>, entry |-> <<>>,
     fresh |-> FALSE, rank |-> 0]

\* histories without repeats, in range of a table of n rows
TidyHistories(n) ==
    {h \in SeqsUpTo(0..(n - 1), MaxHist) : \A i, j \in 1..Len(h) : h[i] = h[j] => i = j}

TidyFiles ==
    UNION {{PlainTable(n) \o MetaBlock([i \in 1..Len(h) |-> py_str(h[i])]) :
               h \in TidyHistories(n)} : n \in 1..MaxRows}

InitConc ==
    /\ disk \in {[exists |-> TRUE, content |-> c] : c \in TidyFiles}
    /\ last = Ran("none", FALSE, Outcome(disk, 0, ""))
    /\ doc = NoDoc
    /\ obs = NoObs
    /\ run = NoRun
    /\ picked = {}
    /\ procs = [p \in Procs |-> Idle]

\* no 'if entry is None' in rollback_last: the file is saved without the
\* index and None is returned
compute_swallows(cmd, parsed_file, r) ==
    IF cmd = "pick"
    THEN LET parsed == validate_history(parsed_file)
             entry == select_random_available(parsed.entries, get_history(parsed), r)
         IN  IF entry = <<>> THEN [write |-> <<>>, entry |-> <<>>, raised |-> ""]
             ELSE [write |-> <<pick_and_mark(parsed, entry[1])>>, entry |-> entry,
                   raised |-> ""]
    ELSE IF cmd = "rollback"
    THEN LET parsed == validate_history(parsed_file)
             removed == remove_from_history(parsed)
         IN  IF removed.ret = <<>> THEN [write |-> <<>>, entry |-> <<>>, raised |-> ""]
             ELSE [write |-> <<removed.file>>,
                   entry |-> find_entry_by_index(removed.file, removed.ret[1]),
                   raised |-> ""]
    ELSE [write |-> <<[parsed_file EXCEPT !.metadata.has_history = TRUE,
                                          !.metadata.history = <<>>]>>,
          entry |-> <<>>, raised |-> ""]

\* what a command does to the ParsedFile it loaded, between its read and
\* its write: [write: the ParsedFile to save or none, entry, raised]
compute(cmd, parsed_file, r) ==
    IF cmd = "pick"
    THEN LET parsed == validate_history(parsed_file)
             entry == select_random_available(parsed.entries, get_history(parsed), r)
         IN  IF entry = <<>> THEN [write |-> <<>>, entry |-> <<>>, raised |-> ""]
             ELSE [write |-> <<pick_and_mark(parsed, entry[1])>>, entry |-> entry,
                   raised |-> ""]
    ELSE IF cmd = "rollback"
    THEN LET parsed == validate_history(parsed_file)
             removed == remove_from_history(parsed)
         IN  IF removed.ret = <<>> THEN [write |-> <<>>, entry |-> <<>>, raised |-> ""]
             ELSE LET entry == find_entry_by_index(removed.file, removed.ret[1]) IN
                  IF entry = <<>>
                  THEN [write |-> <<>>, entry |-> <<>>, raised |-> "ValueError"]
                  ELSE [write |-> <<removed.file>>, entry |-> entry, raised |-> ""]
    ELSE [write |-> <<[parsed_file EXCEPT !.metadata.has_history = TRUE,
                                          !.metadata.history = <<>>]>>,
          entry |-> <<>>, raised |-> ""]

\* the writer's history appended to the history the file holds
overwrite_appending(d, parsed_file) ==
    LET on_disk == _extract_metadata(d.content).history IN
    save_file([parsed_file EXCEPT !.metadata.history = on_disk \o @])

\* the history of the file read again and the new indexes added to it
overwrite_merging(d, parsed_file) ==
    LET on_disk == _extract_metadata(d.content).history
        mine == parsed_file.metadata.history
        added == SelectSeq(mine, LAMBDA x : \A i \in 1..Len(on_disk) : on_disk[i] # x)
    IN  save_file([parsed_file EXCEPT !.metadata.history = on_disk \o added])

\* path.write_text(content): the file becomes what the writer serialized,
\* whatever it held
overwrite(d, parsed_file) == save_file(parsed_file)

Load(p, cmd) ==
    /\ procs[p].pc = "idle"
    /\ procs' = [procs EXCEPT ![p] =
                    [Idle EXCEPT !.pc = "loaded", !.cmd = cmd,
                                 !.loaded = parse_file(disk),
                                 !.fresh = \A q \in Procs : procs[q].rank = 0]]
    /\ UNCHANGED <<disk, last, doc, obs, run, picked>>

Compute(p, r) ==
    /\ procs[p].pc = "loaded"
    /\ LET res == compute(procs[p].cmd, procs[p].loaded[1], r) IN
       procs' = [procs EXCEPT ![p].pc = IF res.write = <<>> THEN "done" ELSE "computed",
                              ![p].write = res.write,
                              ![p].entry = res.entry]
    /\ UNCHANGED <<disk, last, doc, obs, run, picked>>

Store(p) ==
    /\ procs[p].pc = "computed"
    /\ disk' = overwrite(disk, procs[p].write[1])
    /\ procs' = [procs EXCEPT ![p].pc = "done",
                              ![p].rank = 1 + Cardinality({q \in Procs : procs[q].rank > 0})]
    /\ UNCHANGED <<last, doc, obs, run, picked>>

NextConc ==
    \/ \E p \in Procs, cmd \in {"pick", "rollback", "reset"} : Load(p, cmd)
    \/ \E p \in Procs, r \in 0..(MaxRows - 1) : Compute(p, r)
    \/ \E p \in Procs : Store(p)

SpecConc == InitConc /\ [][NextConc]_vars

(***************************************************************************)
(* rollback_last on a ParsedFile whose entries need not be numbered as the *)
(* parser numbers them: doc is what its parse_file call returned           *)
(***************************************************************************)
InitLookup ==
    /\ disk = Missing
    /\ last = Ran("none", FALSE, Outcome(disk, 0, ""))
    /\ doc \in UnitDocs
    /\ obs = NoObs
    /\ run = NoRun
    /\ picked = {}
    /\ procs = NoProcs

RollbackLoaded ==
    LET res == compute("rollback", doc, 0) IN
    /\ disk' = IF res.write = <<>> THEN disk ELSE overwrite(disk, res.write[1])
    /\ doc' = IF res.write = <<>> THEN doc ELSE res.write[1]
    /\ obs' = [Called("rollback_last", doc, res.entry, <<>>) EXCEPT !.raised = res.raised]
    /\ UNCHANGED <<last, run, picked, procs>>

NextLookup == RollbackLoaded

SpecLookup == InitLookup /\ [][NextLookup]_vars

(***************************************************************************)
(* One invocation of the command line, step by step: each parse_file call  *)
(* is a load, the work on the ParsedFile a compute, each save_file call a  *)
(* store.  steps lists the steps of the invocation under way, in order.    *)
(***************************************************************************)
Commands == {"pick", "rollback", "reset", "status"}

NotInvoked ==
    [pc |-> "idle", cmd |-> "none", dry_run |-> FALSE, verbose |-> FALSE,
     loaded |-> <<>>, write |-> <<>>, entry |-> <<>>, steps |-> <<>>]

InitCycle ==
    /\ disk \in {[exists |-> TRUE, content |-> c] : c \in TidyFiles} \cup {Missing}
    /\ last = Ran("none", FALSE, Outcome(disk, 0, ""))
    /\ doc = NoDoc
    /\ obs = NoObs
    /\ run = NoRun
    /\ picked = {}
    /\ procs = NotInvoked

\* the dry-run flag not looked at: the history worked out is saved
work_ignoring_dry_run(cmd, dry_run, parsed_file, r) ==
    IF cmd = "status"
    THEN [write |-> <<>>, entry |-> <<>>, raised |-> ""]
    ELSE compute(cmd, parsed_file, r)

\* the part of a command between its parse_file call and its save call
work(cmd, dry_run, parsed_file, r) ==
    IF cmd = "status" \/ (dry_run /\ cmd = "reset")
    THEN [write |-> <<>>, entry |-> <<>>, raised |-> ""]
    ELSE IF dry_run /\ cmd = "rollback"
    THEN LET history == get_history(parsed_file) IN
         [write |-> <<>>,
          entry |-> IF history = <<>> THEN <<>>
                    ELSE find_entry_by_index(parsed_file, history[Len(history)]),
          raised |-> ""]
    ELSE IF dry_run
    THEN [compute(cmd, parsed_file, r) EXCEPT !.write = <<>>]
    ELSE compute(cmd, parsed_file, r)

\* the command starts: its first step on the file is parse_file, which
\* raises FileNotFoundError when the file is missing
CycleLoad(cmd, dry_run, verbose) ==
    /\ procs.pc \in {"idle", "done"}
    /\ LET loaded == parse_file(disk) IN
       procs' = [NotInvoked EXCEPT !.pc = IF loaded = <<>> THEN "done" ELSE "loaded",
                                   !.cmd = cmd, !.dry_run = dry_run,
                                   !.verbose = verbose, !.loaded = loaded,
                                   !.steps = <<"load">>]
    /\ UNCHANGED <<disk, last, doc, obs, run, picked>>

CycleCompute(r) ==
    /\ procs.pc = "loaded"
    /\ LET res == work(procs.cmd, procs.dry_run, procs.loaded[1], r) IN
       procs' = [procs EXCEPT !.pc = IF res.write = <<>> THEN "done" ELSE "computed",
                              !.write = res.write,
                              !.entry = res.entry,
                              !.steps = Append(@, "compute")]
    /\ UNCHANGED <<disk, last, doc, obs, run, picked>>

\* save_file; a verbose rollback goes on to read the file again
CycleStore ==
    /\ procs.pc = "computed"
    /\ disk' = overwrite(disk, procs.write[1])
    /\ procs' = [procs EXCEPT !.pc = IF procs.cmd = "rollback" /\ procs.verbose
                                     THEN "stored" ELSE "done",
                              !.steps = Append(@, "store")]
    /\ UNCHANGED <<last, doc, obs, run, picked>>

\* cmd_rollback, verbose: parse_file again for the status line
CycleReport ==
    /\ procs.pc = "stored"
    /\ procs' = [procs EXCEPT !.pc = "done",
                              !.loaded = parse_file(disk),
                              !.steps = Append(@, "load")]
    /\ UNCHANGED <<disk, last, doc, obs, run, picked>>

NextCycle ==
    \/ \E cmd \in Commands, dry_run \in BOOLEAN, verbose \in BOOLEAN :
           CycleLoad(cmd, dry_run, verbose)
    \/ \E r \in 0..(MaxRows - 1) : CycleCompute(r)
    \/ CycleStore
    \/ CycleReport

SpecCycle == InitCycle /\ [][NextCycle]_vars

(***************************************************************************)
(* Picks only, on a file that starts with an empty history.  run keeps the *)
(* number of entries the file had at the start, the entries selected since *)
(* and whether a pick has found nothing to select.                         *)
(***************************************************************************)
EmptyBlocks == {<<>>, <<Blank, MetaOpen, MetaClose>>, MetaBlock(<<>>)}

UnusedFiles ==
    {t \o b : t \in {PlainTable(n) : n \in 0..MaxRows} \cup Tables \cup ColumnTables,
              b \in EmptyBlocks}

InitPicks ==
    /\ disk \in {[exists |-> TRUE, content |-> c] : c \in UnusedFiles}
    /\ last = Ran("none", FALSE, Outcome(disk, 0, ""))
    /\ doc = NoDoc
    /\ obs = NoObs
    /\ run = [n |-> Len(parse_file(disk)[1].entries), selected |-> <<>>,
              exhausted |-> FALSE]
    /\ picked = {}
    /\ procs = NoProcs

PickAgain(r) ==
    LET res == cmd_pick(disk, FALSE, r) IN
    /\ disk' = res.disk
    /\ last' = Ran("pick", FALSE, res)
    /\ run' = IF res.entry # <<>>
              THEN [run EXCEPT !.selected = Append(@, res.entry[1])]
              ELSE [run EXCEPT !.exhausted = TRUE]
    /\ UNCHANGED <<doc, obs, picked, procs>>

NextPicks == \E r \in 0..(MaxRows - 1) : PickAgain(r)

SpecPicks == InitPicks /\ [][NextPicks]_vars

(***************************************************************************)
(* What the claims speak of                                                *)
(***************************************************************************)
\* the document a fresh parse of the file on disk d gives
Reparsed(d) == parse_content(d.content)

\* the history a fresh parse of d gives ([] for a missing file)
DiskHistory(d) == IF d.exists THEN _extract_metadata(d.content).history ELSE <<>>

\* the number of entries a fresh parse of d gives
DiskRows(d) == IF d.exists THEN Len(Reparsed(d).entries) ELSE 0

\* the elements of h that lie in [0, n), in order
InRange(h, n) == SelectSeq(h, LAMBDA i : i >= 0 /\ i < n)

\* the history of the file the last command started from, after validation
Validated == InRange(DiskHistory(last.before), DiskRows(last.before))

Front(h) == SubSeq(h, 1, Len(h) - 1)

Occurrences(h, x) == Cardinality({i \in 1..Len(h) : h[i] = x})

NoRepeat(h) == \A i, j \in 1..Len(h) : h[i] = h[j] => i = j

\* the last command was cmd, not a dry run, on an existing file
Did(cmd) == last.cmd = cmd /\ ~last.dry_run /\ last.before.exists

\* every entry of the file's table has its row index in the file's history
Exhausted(d) ==
    /\ d.exists
    /\ LET entries == Reparsed(d).entries
           history == DiskHistory(d)
       IN  \A n \in 1..Len(entries) :
               \E i \in 1..Len(history) : history[i] = entries[n].row_index

\* C2: a successful non-dry-run pick leaves a file whose parsed history is the
\* validated history of the file it started from with the picked entry's row
\* index appended.
C2_PickAppendsOne ==
    (Did("pick") /\ last.exit = 0) =>
        /\ disk.exists
        /\ last.entry # <<>>
        /\ DiskHistory(disk) = Append(Validated, last.entry[1].row_index)

C2_Witness ==
    /\ Did("pick") /\ last.exit = 0
    /\ Validated # <<>>
    /\ Len(DiskHistory(last.before)) > Len(Validated)

\* C4: on a non-empty validated history rollback_last returns the entry whose
\* row index is the last element and leaves a file whose parsed history is the
\* validated history without that element.
C4_RollbackPopsTail ==
    (Did("rollback") /\ Validated # <<>>) =>
        /\ last.exit = 0
        /\ last.entry # <<>>
        /\ last.entry[1].row_index = Validated[Len(Validated)]
        /\ LET entries == Reparsed(last.before).entries IN
           \E n \in 1..Len(entries) : entries[n] = last.entry[1]
        /\ DiskHistory(disk) = Front(Validated)

C4_Witness ==
    /\ Did("rollback") /\ Len(Validated) >= 2
    /\ Len(DiskHistory(last.before)) > Len(Validated)
    /\ last.entry # <<>>

\* C5 as claimed: after a rollback that returns E, the row index of E never
\* occurs in the persisted history.
C5_RolledBackIsAvailable ==
    (Did("rollback") /\ last.entry # <<>>) =>
        ~is_used(last.entry[1], DiskHistory(disk))

\* C5 amended: after a rollback that returns E, the row index of E is absent from
\* the persisted history exactly when it occurred once in the validated history.
C5_AvailableUnlessRepeated ==
    (Did("rollback") /\ last.entry # <<>>) =>
        (~is_used(last.entry[1], DiskHistory(disk))
            <=> Occurrences(Validated, last.entry[1].row_index) = 1)

C5_Witness ==
    /\ Did("rollback") /\ last.entry # <<>>
    /\ Len(Validated) >= 2
    /\ Occurrences(Validated, last.entry[1].row_index) = 1
    /\ ~is_used(last.entry[1], DiskHistory(disk))

\* C6: from a file whose history holds the row index of every entry, a pick
\* selects nothing, ends Exhausted and leaves the file as it is, and the file
\* stays exhausted over every command but a rollback or a reset.
C6_Exhaustion ==
    [][Exhausted(disk) =>
          /\ last'.cmd = "pick" =>
                 /\ last'.entry = <<>>
                 /\ last'.exit = 1
                 /\ last'.out = "No unused entries available"
                 /\ disk' = disk
          /\ (last'.cmd \notin {"rollback", "reset"} \/ last'.dry_run) => Exhausted(disk')]_vars

C6_Witness ==
    /\ last.cmd = "pick" /\ ~last.dry_run
    /\ Exhausted(last.before)
    /\ DiskRows(last.before) >= 2
    /\ last.exit = 1

\* C7: a command never brings a repeated index into a persisted history that
\* had none.
C7_NoDuplicates ==
    [][NoRepeat(DiskHistory(disk)) => NoRepeat(DiskHistory(disk'))]_vars

C7_Witness ==
    /\ Did("pick") /\ last.exit = 0
    /\ NoRepeat(DiskHistory(last.before))
    /\ Len(DiskHistory(disk)) >= 3

\* C8: after reset_all the parsed history is [] and every entry of the table is
\* available, whatever the history was.
C8_ResetClears ==
    Did("reset") =>
        /\ disk.exists
        /\ DiskHistory(disk) = <<>>
        /\ LET entries == Reparsed(disk).entries IN
           /\ \A n \in 1..Len(entries) : ~is_used(entries[n], DiskHistory(disk))
           /\ get_available_entries(entries, DiskHistory(disk)) = entries

C8_Witness ==
    /\ Did("reset")
    /\ ~NoRepeat(DiskHistory(last.before))
    /\ Len(DiskHistory(last.before)) > Len(Validated)
    /\ DiskRows(disk) >= 2

RECURSIVE Distinct(_)
Distinct(h) ==
    IF h = <<>> THEN 0
    ELSE Distinct(Front(h)) +
         (IF \E i \in 1..(Len(h) - 1) : h[i] = h[Len(h)] THEN 0 ELSE 1)

\* C9: reset_all returns the number of distinct indices of the history it
\* loaded, and 0 when that history was empty.
C9_ResetCount ==
    Did("reset") =>
        /\ last.count = Distinct(DiskHistory(last.before))
        /\ DiskHistory(last.before) = <<>> => last.count = 0

C9_Witness ==
    /\ Did("reset")
    /\ last.count = 2
    /\ Len(DiskHistory(last.before)) = 3

\* C1: select_random_available returns none or one of the given entries whose
\* row index does not occur in the given history.
C1_NeverReturnsUsed ==
    obs.op = "select_random_available" =>
        \/ obs.entry = <<>>
        \/ /\ \E n \in 1..Len(obs.before.entries) : obs.before.entries[n] = obs.entry[1]
           /\ \A i \in 1..Len(obs.before.metadata.history) :
                  obs.before.metadata.history[i] # obs.entry[1].row_index

C1_Witness ==
    /\ obs.op = "select_random_available"
    /\ obs.entry # <<>>
    /\ obs.entry[1].row_index = 2
    /\ \E n \in 1..Len(obs.before.entries) :
           is_used(obs.before.entries[n], obs.before.metadata.history)
    /\ \E i \in 1..Len(obs.before.metadata.history) :
           obs.before.metadata.history[i] = 5

\* C3: N marks followed by pops with nothing in between: the k-th pop returns
\* the row index given to the (N-k+1)-th mark, and after the N-th pop the
\* history is what it was before the first mark.
C3_Lifo ==
    run.phase = "pop" =>
        /\ \A k \in 1..Len(run.popped) :
               run.popped[k] = <<run.marked[Len(run.marked) - k + 1]>>
        /\ Len(run.popped) = Len(run.marked) => get_history(doc) = run.base

C3_Witness ==
    /\ run.phase = "pop"
    /\ Len(run.marked) = 2 /\ Len(run.popped) = 2
    /\ run.marked[1] # run.marked[2]
    /\ run.base # <<>>

C11_ValidateIdempotent ==
    (obs.op = "validate_history" /\ obs.again) => doc = obs.before

\* a second validation in a row, of a history that has kept two indexes
C11_Witness ==
    /\ obs.op = "validate_history"
    /\ obs.again
    /\ Len(doc.metadata.history) = 2
    /\ Len(doc.entries) = 2

\* the history of file d holds an index at or past the end of its table
OutOfRange(d) ==
    LET history == DiskHistory(d)
        rows == DiskRows(d)
    IN  \E i \in 1..Len(history) : history[i] >= rows

UsedColumn(d) ==
    /\ d.exists
    /\ LET headers == _extract_table(d.content).headers IN
       headers # <<>> /\ lower_is_used(headers[Len(headers)])

\* file d with the Used cell of every full data row changed: [x] emptied,
\* anything else set to [x].  Rows whose other cells are all dashes are left
\* alone: with an empty Used cell such a line is a separator, not a row.
Remarked(d) ==
    LET content == d.content
        headers == _extract_table(content).headers
        first == CHOOSE i \in 1..Len(content) :
                     content[i].k = "row" /\ \A n \in 1..(i - 1) : content[n].k # "row"
        remark(cells) ==
            [cells EXCEPT ![Len(cells)] = IF @ = "[x]" THEN "" ELSE "[x]"]
    IN  [d EXCEPT !.content =
            [i \in 1..Len(content) |->
                IF /\ content[i].k = "row"
                   /\ i > first
                   /\ Len(content[i].c) = Len(headers)
                   /\ \E n \in 1..(Len(headers) - 1) : content[i].c[n] \notin DashCells
                THEN Row(remark(content[i].c))
                ELSE content[i]]]

NoBlock(d) == \A i \in 1..Len(d.content) : d.content[i].k # "open"

\* the data rows of file d whose last cell is [x]
Marked(d) ==
    LET rows == _extract_table(d.content).rows IN
    {n \in 1..Len(rows) : rows[n].cells[Len(rows[n].cells)] = "[x]"}

\* the last command ran on a file with a trailing Used column and no
\* metadata block
LegacyOnly == UsedColumn(last.before) /\ NoBlock(last.before)

C15_NoStaleMarker ==
    disk.exists =>
        LET entries == Reparsed(disk).entries
            valid == InRange(DiskHistory(disk), Len(entries))
        IN  \A n \in 1..Len(entries) :
                (\E i \in 1..Len(valid) : valid[i] = entries[n].row_index)
                    => entries[n].content \in picked

\* the last command was one that only reads: status, or a dry run
ReadOnly == last.cmd = "status" \/ (last.cmd \in {"pick", "rollback", "reset"} /\ last.dry_run)

\* C16: after status, and after a dry run of pick, rollback or reset, the
\* file is the file the command started from: same existence, same content.
C16_ReadOnlyNeverWrites == ReadOnly => disk = last.before

\* a dry run of pick that selected an entry, or one of reset that counted
\* used entries: a run that would have rewritten the file without the flag
C16_Witness ==
    /\ last.dry_run
    /\ last.before.exists
    /\ \/ last.cmd = "pick" /\ last.entry # <<>>
       \/ last.cmd = "reset" /\ last.count > 0
    /\ DiskHistory(disk) # <<>>

\* C17: a status, a reset, or a rollback that found nothing to roll back, run
\* again right after itself, leaves the file as the first run left it; after
\* the second reset the history is still empty.
C17_RerunIdempotent ==
    [][(/\ last.before.exists
        /\ ~last.dry_run /\ ~last'.dry_run
        /\ last'.cmd = last.cmd
        /\ \/ last.cmd \in {"status", "reset"}
           \/ last.cmd = "rollback" /\ last.exit = 0 /\ last.entry = <<>>)
       => (disk' = disk /\ (last.cmd = "reset" => DiskHistory(disk') = <<>>))]_vars

\* C18: a rollback of a file whose history is empty returns no entry, fails
\* with nothing, exits with code 0 reporting that there is nothing to roll
\* back, and leaves the file as it is.
C18_EmptyRollback ==
    (last.cmd = "rollback" /\ last.before.exists /\ DiskHistory(last.before) = <<>>) =>
        /\ last.exit = 0
        /\ last.entry = <<>>
        /\ last.out = "No entries to rollback"
        /\ disk = last.before

\* such a rollback, not a dry run, of a file that has entries
C18_Witness ==
    /\ Did("rollback")
    /\ DiskHistory(last.before) = <<>>
    /\ DiskRows(last.before) > 0
    /\ last.exit = 0

\* C19: pick, rollback, reset and status on a path that does not exist, dry
\* run or not, exit with code 1 reporting that the file was not found, return
\* no entry and leave the path without a file.
C19_NotFound ==
    (last.cmd \in {"pick", "rollback", "reset", "status"} /\ ~last.before.exists) =>
        /\ last.exit = 1
        /\ last.out = "File not found"
        /\ last.entry = <<>>
        /\ ~disk.exists
        /\ disk = last.before

\* a reset, not a dry run, of a path that does not exist
C19_Witness ==
    /\ last.cmd = "reset" /\ ~last.dry_run
    /\ ~last.before.exists
    /\ last.exit = 1

\* items that are no integer literal
NotAnInteger == {<<"x">>, <<"1", "x">>}

\* the lines of file d that give the history key a value
HistoryLines(d) ==
    SelectSeq(d.content, LAMBDA line : line.k = "kv" /\ line.c = <<"history">>)

\* C20: parsing a file whose one history line holds an item that is no
\* integer gives history [], whatever the other items are, and gives a
\* document: nothing is raised.
C20_MalformedTokenEmptiesHistory ==
    (obs.op = "parse_file" /\ Len(HistoryLines(disk)) = 1) =>
        LET items == HistoryLines(disk)[1].v IN
        (\E i \in 1..Len(items) : items[i] \in NotAnInteger) =>
            /\ doc.metadata.has_history
            /\ doc.metadata.history = <<>>
            /\ doc.raw_content = disk.content

\* a parse of a history value with two numbers and one item that is none
C20_Witness ==
    /\ obs.op = "parse_file"
    /\ Len(HistoryLines(disk)) = 1
    /\ LET items == HistoryLines(disk)[1].v IN
       /\ Len(items) = 3
       /\ Cardinality({i \in 1..3 : items[i] \in NotAnInteger}) = 1
       /\ Cardinality({i \in 1..3 : items[i] \in {<<"0">>, <<"1", "2">>}}) = 2
    /\ doc.metadata.history = <<>>

\* C21: parsing a file without a metadata block gives a document whose
\* metadata is the history key with the value [] and nothing else, and every
\* entry of the document is available under that history.
C21_NoBlockEmptyHistory ==
    (obs.op = "parse_file" /\ NoBlock(disk)) =>
        /\ doc.metadata = Metadata(TRUE, <<>>, <<>>)
        /\ get_available_entries(doc.entries, get_history(doc)) = doc.entries
        /\ \A n \in 1..Len(doc.entries) : ~is_used(doc.entries[n], doc.metadata.history)

\* a parse of a file without a block whose table has several rows
C21_Witness ==
    /\ obs.op = "parse_file"
    /\ NoBlock(disk)
    /\ Len(doc.entries) >= 2

\* a well-formed text: a header row with the separator under it, every other
\* row as long as the header, and no legacy Used column at the end of the
\* header
WellFormed(content) ==
    /\ \E i \in 1..Len(content) : content[i].k = "row"
    /\ LET first == CHOOSE i \in 1..Len(content) :
                        content[i].k = "row" /\ \A n \in 1..(i - 1) : content[n].k # "row"
           headers == content[first].c
       IN  /\ ~lower_is_used(headers[Len(headers)])
           /\ first < Len(content)
           /\ TABLE_SEPARATOR_PATTERN(content[first + 1])
           /\ \A i \in 1..Len(content) :
                  content[i].k = "row" => Len(content[i].c) = Len(headers)

\* C22: a well-formed text, parsed, saved and parsed again, gives the entries
\* (content, attributes, row index), the column names and the history that
\* its first parse gave.
C22_RoundTrip ==
    [][(/\ obs.op = "save_file"
        /\ obs'.op = "parse_file"
        /\ WellFormed(doc.raw_content))
       => /\ doc'.entries = doc.entries
          /\ doc'.headers = doc.headers
          /\ doc'.metadata.history = doc.metadata.history]_vars

\* the cells of the first row line of a text
HeaderLine(content) ==
    content[CHOOSE i \in 1..Len(content) :
                content[i].k = "row" /\ \A n \in 1..(i - 1) : content[n].k # "row"].c

RawPrefix(content) ==
    IF \E i \in 1..Len(content) : content[i].k = "row"
    THEN SubSeq(content, 1,
                (CHOOSE i \in 1..Len(content) :
                     content[i].k = "row" /\ \A n \in 1..(i - 1) : content[n].k # "row") - 1)
    ELSE content

\* C24: the text written by a save begins with the lines that preceded the
\* table in the text that was parsed, every one of them, unchanged and in
\* order.
C24_PrefixVerbatim ==
    obs.op = "save_file" =>
        LET prefix == RawPrefix(doc.raw_content) IN
        /\ Len(disk.content) >= Len(prefix)
        /\ SubSeq(disk.content, 1, Len(prefix)) = prefix

\* the history an invocation is to write, told from the file it loaded: the
\* loaded history in range, with the picked index appended, or without its
\* tail, or emptied
OwnHistory(proc) ==
    LET loaded == proc.loaded[1]
        valid == InRange(loaded.metadata.history, Len(loaded.entries))
    IN  IF proc.cmd = "pick" THEN Append(valid, proc.entry[1].row_index)
        ELSE IF proc.cmd = "rollback" THEN Front(valid)
        ELSE <<>>

\* both invocations loaded the file before either wrote it, and p wrote
\* first and q second
WroteAfter(p, q) ==
    /\ procs[p].fresh /\ procs[q].fresh
    /\ procs[p].rank > 0
    /\ procs[q].rank > procs[p].rank

\* C25: when both invocations loaded the file before either wrote it, the
\* file after both writes is the serialization of the second writer's
\* ParsedFile, and its history is the one the second writer worked out from
\* the file it loaded: the first writer's change is not in it.
C25_LaterWriterWins ==
    \A p, q \in Procs :
        WroteAfter(p, q) =>
            /\ disk.content = serialize_file(procs[q].write[1])
            /\ DiskHistory(disk) = OwnHistory(procs[q])

\* two overlapping picks of different entries: the index of the entry the
\* first writer picked is not in the file
C25_Witness ==
    \E p, q \in Procs :
        /\ WroteAfter(p, q)
        /\ procs[p].cmd = "pick" /\ procs[q].cmd = "pick"
        /\ procs[p].entry # procs[q].entry
        /\ \A i \in 1..Len(DiskHistory(disk)) :
               DiskHistory(disk)[i] # procs[p].entry[1].row_index

\* C27: a rollback that returns an entry leaves a file whose history is the
\* validated history up to its tail, element by element in the same order,
\* so every entry of the file whose row index was in the validated history
\* before the tail is still used.
C27_OnlyTailUndone ==
    (Did("rollback") /\ last.entry # <<>>) =>
        LET after == DiskHistory(disk)
            entries == Reparsed(disk).entries
        IN  /\ Len(after) = Len(Validated) - 1
            /\ \A i \in 1..Len(after) : after[i] = Validated[i]
            /\ \A i \in 1..(Len(Validated) - 1) :
                   \A n \in 1..Len(entries) :
                       entries[n].row_index = Validated[i] =>
                           /\ is_used(entries[n], after)
                           /\ get_available_entries(<<entries[n]>>, after) = <<>>

\* a rollback after which an entry selected earlier than the one returned is
\* still used
C27_Witness ==
    /\ Did("rollback") /\ last.entry # <<>>
    /\ Len(Validated) >= 2
    /\ Validated[1] # Validated[Len(Validated)]
    /\ LET entries == Reparsed(disk).entries IN
       \E n \in 1..Len(entries) :
           /\ entries[n].row_index = Validated[1]
           /\ is_used(entries[n], DiskHistory(disk))

\* C28: after a pick that succeeded, a rollback that returned an entry, and
\* a reset, none of them a dry run, every index of the history in the file
\* lies in [0, number of entries of the file), and that history is the
\* validated history with the command's own change.
C28_PersistedInRange ==
    ((Did("pick") /\ last.exit = 0) \/ (Did("rollback") /\ last.entry # <<>>) \/ Did("reset")) =>
        LET after == DiskHistory(disk) IN
        /\ after = InRange(after, DiskRows(disk))
        /\ Did("pick") => Front(after) = Validated
        /\ Did("rollback") => after = Front(Validated)

\* C29: a pick, a rollback or a reset, dry run or not, of a well-formed text
\* without a legacy Used column leaves a file that parses to the column
\* names and the entries (content, attributes, order, row index) that the
\* file it started from parses to.
C29_OnlyHistoryChanges ==
    (/\ last.cmd \in {"pick", "rollback", "reset"}
     /\ last.before.exists
     /\ WellFormed(last.before.content)) =>
        LET before == Reparsed(last.before)
            after == Reparsed(disk)
        IN  /\ after.headers = before.headers
            /\ after.entries = before.entries

\* C30: when the index that rollback_last pops from the validated history is
\* the row index of no entry, rollback_last raises ValueError, returns no
\* entry and leaves the file as it was; in every other case it raises nothing.
C30_InconsistentLookupRaises ==
    [][LET entries == doc.entries
           valid == InRange(get_history(doc), Len(entries))
           unresolved == /\ valid # <<>>
                         /\ \A n \in 1..Len(entries) :
                                entries[n].row_index # valid[Len(valid)]
       IN  obs'.op = "rollback_last" =>
               IF unresolved
               THEN /\ obs'.raised = "ValueError"
                    /\ obs'.entry = <<>>
                    /\ disk' = disk
               ELSE obs'.raised = ""]_vars

\* a rollback has raised ValueError for an index that no entry carries
C30_Witness ==
    /\ obs.op = "rollback_last"
    /\ obs.raised = "ValueError"
    /\ get_history(obs.before) # <<>>
    /\ disk = Missing

\* the invocation under way or just ended is one that saves: a pick that
\* selected an entry, a rollback that popped one, a reset, none of them a dry
\* run, on a file that exists
Saves ==
    /\ procs.loaded # <<>>
    /\ ~procs.dry_run
    /\ \/ procs.cmd = "reset"
       \/ procs.cmd \in {"pick", "rollback"} /\ procs.entry # <<>>

\* C31 as stated: every invocation that has ended made exactly the steps
\* load, compute, store, once each and in that order.
C31_ExactlyOneCycle ==
    procs.pc = "done" => procs.steps = <<"load", "compute", "store">>

\* C31: an invocation starts with one load, then computes, then overwrites
\* the file at most once, in that order.  It has overwritten the file when it
\* ends exactly if it is a pick that selected an entry, a rollback that
\* popped one, or a reset, not a dry run and on a file that exists; only a
\* verbose rollback makes a further step, a second load after its overwrite.
C31_AtMostOneCycle ==
    LET cycle == <<"load", "compute", "store", "load">>
        n == Len(procs.steps)
    IN  /\ n <= 4
        /\ procs.steps = SubSeq(cycle, 1, n)
        /\ n = 4 => procs.cmd = "rollback" /\ procs.verbose /\ Saves
        /\ procs.pc = "done" =>
               /\ n >= 3 <=> Saves
               /\ n = 3 => ~(procs.cmd = "rollback" /\ procs.verbose)
               /\ n = 1 => ~disk.exists

\* a verbose rollback has ended after its second load
C31_Witness ==
    /\ procs.pc = "done"
    /\ procs.steps = <<"load", "compute", "store", "load">>

\* C32: the entries that parse_file returns carry the row indexes 0, 1, ...
\* in file order, one for each data row of the table, whatever lines stand
\* before or between the rows.
C32_RowIndexIsOrdinal ==
    obs.op = "parse_file" =>
        /\ Len(doc.entries) = Len(_extract_table(disk.content).rows)
        /\ \A i \in 1..Len(doc.entries) : doc.entries[i].row_index = i - 1

\* a parsed table that starts below the first line and has a blank line
\* between two of its data rows
C32_Witness ==
    /\ obs.op = "parse_file"
    /\ Len(doc.entries) >= 2
    /\ disk.content[1].k # "row"
    /\ \E i, j, n \in 1..Len(disk.content) :
           /\ i < j /\ j < n
           /\ disk.content[j].k = "blank"
           /\ disk.content[i].k = "row" /\ disk.content[i].c[1] = doc.entries[1].content
           /\ disk.content[n].k = "row" /\ disk.content[n].c[1] = doc.entries[2].content

\* C33: a rollback command on a file never ends with the error of an index
\* found in the history but not in the entries list: every index in
\* [0, number of entries) of the file it parsed is the row index of an entry,
\* and when the validated history is not empty the rollback returns an entry.
C33_LookupNeverFails ==
    Did("rollback") =>
        LET parsed == Reparsed(last.before) IN
        /\ last.out # "found in history but not in entries list"
        /\ \A index \in 0..(Len(parsed.entries) - 1) :
               find_entry_by_index(parsed, index) # <<>>
        /\ Validated # <<>> => last.entry # <<>>

\* a rollback has returned the last entry of a file whose history also held
\* an index out of range
C33_Witness ==
    /\ Did("rollback")
    /\ OutOfRange(last.before)
    /\ last.entry # <<>>
    /\ last.entry[1].row_index = DiskRows(last.before) - 1

\* C34: the counts that status reports on a file add up: the number of used
\* entries plus the number of available entries is the number of entries.
C34_CountsPartition ==
    (last.cmd = "status" /\ last.before.exists) =>
        last.count + last.available = last.total

\* C35: a dry-run rollback on a file names the entry that rollback_last
\* returns on that file, and says that there is nothing to roll back exactly
\* when rollback_last returns none.
C35_DryRunPreviewsRollback ==
    (last.cmd = "rollback" /\ last.dry_run /\ last.before.exists) =>
        LET real == rollback_last(last.before) IN
        /\ last.entry = real.ret
        /\ last.out = "No entries to rollback" <=> real.ret = <<>>

\* C36: a pick that finds no available entry and a rollback that finds
\* nothing to roll back leave the file exactly as it was, the indexes out of
\* range that validation dropped in memory included.
C36_NoWriteWithoutResult ==
    (\/ Did("pick") /\ last.out = "No unused entries available"
     \/ Did("rollback") /\ last.out = "No entries to rollback") =>
        /\ disk = last.before
        /\ DiskHistory(disk) = DiskHistory(last.before)

\* a pick has ended Exhausted on a file whose history holds an index out of
\* range, which is still in the file
C36_Witness ==
    /\ Did("pick")
    /\ last.out = "No unused entries available"
    /\ OutOfRange(disk)
    /\ DiskRows(disk) > 0

\* the entries of the file that pick may select: those whose row index is
\* not in the validated history
Available(d) ==
    LET parsed == validate_history(Reparsed(d)) IN
    get_available_entries(parsed.entries, get_history(parsed))

\* C37: whatever the file holds, each entry whose row index is not in the
\* validated history is selected by pick for some outcome of the random
\* choice.
C37_EveryAvailableCanBePicked ==
    disk.exists =>
        LET available == Available(disk) IN
        \A n \in 1..Len(available) :
            \E r \in 0..(MaxRows - 1) :
                LET res == cmd_pick(disk, FALSE, r) IN
                /\ res.exit = 0
                /\ res.entry = <<available[n]>>

\* a pick has selected the last of several available entries
C37_Witness ==
    /\ Did("pick")
    /\ last.entry # <<>>
    /\ LET available == Available(last.before) IN
       /\ Len(available) >= 2
       /\ last.entry[1] = available[Len(available)]

\* C38: of the picks made one after the other on a file that starts with an
\* empty history and n entries, none fails before n have succeeded, no more
\* than n succeed, and the entries selected are pairwise distinct.
C38_PicksUntilExhausted ==
    /\ Len(run.selected) <= run.n
    /\ run.exhausted => Len(run.selected) = run.n
    /\ \A i, j \in 1..Len(run.selected) :
           run.selected[i].row_index = run.selected[j].row_index => i = j

\* C39: whatever the order of the loads and the stores of the invocations,
\* the history in the file has no index twice and only indexes of entries of
\* the file, the file having started so.
C39_InterleavingKeepsHistoryTidy ==
    LET history == DiskHistory(disk) IN
    /\ NoRepeat(history)
    /\ history = InRange(history, DiskRows(disk))

\* two invocations that loaded the same file have both picked the same entry
\* and both written: its index is in the file once
C39_Witness ==
    \E p, q \in Procs :
        /\ WroteAfter(p, q)
        /\ procs[p].cmd = "pick" /\ procs[q].cmd = "pick"
        /\ procs[p].entry = procs[q].entry
        /\ Occurrences(DiskHistory(disk), procs[q].entry[1].row_index) = 1

====
